---- MODULE Spec2Model ----
(***************************************************************************)
(* State-machine model of src/justdail_scraper.py (class JustdialScraper). *)
(*                                                                         *)
(* The browser, the page and the file system are the environment: every   *)
(* driver call is a nondeterministic choice over the outcomes the code    *)
(* distinguishes (a value, NoSuchElementException, any other exception).  *)
(* Control positions of run() are held in rpc, those of scrape_products() *)
(* in spc.  Variables whose names start with h_ are history variables:    *)
(* they record what happened and are never read by the program actions.   *)
(*                                                                         *)
(* Spec is a whole run.  ReadSpec is read_urls on every short file,        *)
(* ScrollSpec is one smooth_scroll call inside the loop of                 *)
(* scrape_products, LiveSpec is a run under fairness, with the exceptions  *)
(* that leave the try block of run().                                      *)
(***************************************************************************)
EXTENDS Integers, Sequences, FiniteSets, TLC

\* ------------------------------------------------------------------ bounds
MaxCount == 2        \* largest number of listing items one sample reports
MaxRecords == 3      \* records a run over pages that only grow extracts at most
MaxClock == 1        \* last reading of the second-resolution clock
MaxLines == 3        \* lines of an input file read_urls is explored on
MaxPixels == 120     \* largest pixels argument smooth_scroll is explored on,
                     \* besides the one scrape_products passes

\* ------------------------------------------------------- program constants
max_scroll_attempts == 50
step == 50           \* smooth_scroll(): step
ScrollBudget == 800  \* scrape_products(): self.smooth_scroll(800)

VARIABLES
    input_file,            \* justdail_urls.txt: [exists, lines]
    volatile,              \* the pages may re-render with fewer items than before
    chunk_size,            \* self.chunk_size
    partial_save_counter,  \* self._partial_save_counter
    now,                   \* datetime.now(), in whole seconds
    written,               \* every successful to_excel call, in order: [name, rows]
    rpc,                   \* position in run()
    urls,                  \* run(): urls
    url_pos,               \* run(): index of the for loop over urls (1-based)
    all_products,          \* run(): all_products
    spc,                   \* position in scrape_products()
    products_data,         \* scrape_products(): products_data
    scroll_attempts,       \* scrape_products(): scroll_attempts
    last_count,            \* scrape_products(): last_count
    current_count,         \* scrape_products(): current_count
    item_pos,              \* scrape_products(): position of the for loop in products
    h_iterations,          \* samples taken for the current page
    h_page,                \* the current page so far: "clean", "failed" (an element
                           \* gave no record or the batch was cut short), "login"
                           \* (a login barrier was detected)
    h_exit,                \* how scrape_products last left its loop
    h_collected,           \* every record appended in the run, in order
    h_visited,             \* urls handed to scrape_products, in order
    h_write_failed,        \* some to_excel call of the run raised
    h_template_failed,     \* creating the template file raised
    h_final_saves,         \* calls of save_to_excel
    pixels,                \* smooth_scroll(): pixels
    current,               \* smooth_scroll(): current
    h_increments,          \* scrollBy calls of the current smooth_scroll call, in
                           \* order: [amount, ok] (ok: execute_script returned)
    h_extracted,           \* positions of the current page's listing handed to
                           \* get_product_details (kept for a listing that only grows,
                           \* where a position is an item)
    h_twice,               \* some position of the current page was handed to it twice
    h_quits,               \* calls of driver.quit()
    h_quit_failed          \* driver.quit() raised

vars == << input_file, volatile, chunk_size, partial_save_counter, now, written, rpc,
           urls, url_pos, all_products, spc, products_data, scroll_attempts,
           last_count, current_count, item_pos, h_iterations, h_page, h_exit,
           h_collected, h_visited, h_write_failed, h_template_failed, h_final_saves,
           pixels, current, h_increments, h_extracted, h_twice, h_quits,
           h_quit_failed >>

\* groups of variables, for UNCHANGED
setup_vars == << volatile, chunk_size >>
out_vars == << partial_save_counter, written, h_write_failed >>
run_vars == << rpc, urls, url_pos, all_products, h_visited, h_final_saves >>
loop_vars == << scroll_attempts, last_count, current_count, item_pos, h_iterations >>
scroll_vars == << pixels, current, h_increments >>
extract_vars == << h_extracted, h_twice >>
session_vars == << h_quits, h_quit_failed >>

\* ---------------------------------------------------------------- helpers
Range(s) == { s[i] : i \in DOMAIN s }

\* ------------------------------------------------------- the input list
\* A line is a sequence of tokens.  Whitespace, the comment marker and the
\* scheme are tokens of their own, so that strip(), startswith() and lower()
\* are computed on the line and not assumed.
Whitespace == { " ", "\n" }

Lower(tok) ==
    CASE tok = "WWW.JUSTDIAL.COM" -> "www.justdial.com"
      [] tok = "HTTPS://" -> "https://"
      [] OTHER -> tok

RECURSIVE LStrip(_)
LStrip(line) ==
    IF line # << >> /\ Head(line) \in Whitespace THEN LStrip(Tail(line)) ELSE line

RECURSIVE RStrip(_)
RStrip(line) ==
    IF line # << >> /\ line[Len(line)] \in Whitespace
    THEN RStrip(SubSeq(line, 1, Len(line) - 1))
    ELSE line

\* str.strip()
Strip(line) == RStrip(LStrip(line))

\* validate_url: "justdial.com" in url.lower() and url.startswith(("http://", "https://"))
validate_url(url) ==
    /\ \E i \in DOMAIN url : Lower(url[i]) = "www.justdial.com"
    /\ url # << >>
    /\ Head(url) \in { "http://", "https://" }

RECURSIVE ReadLines_stops(_)
\* a reading loop that a rejected line ends
ReadLines_stops(lines) ==
    IF lines = << >> THEN << >>
    ELSE LET url == Strip(Head(lines))
             rest == ReadLines_stops(Tail(lines))
         IN IF url = << >> \/ Head(url) = "#" THEN rest
            ELSE IF validate_url(url) THEN << url >> \o rest
            ELSE << >>

RECURSIVE ReadLines(_)
\* the for loop of read_urls over the lines of an existing file
ReadLines(lines) ==
    IF lines = << >> THEN << >>
    ELSE LET url == Strip(Head(lines))
             rest == ReadLines(Tail(lines))
         IN IF url = << >> \/ Head(url) = "#" THEN rest
            ELSE IF validate_url(url) THEN << url >> \o rest
            ELSE rest

\* a template whose example line is not commented out
TemplateLines_uncommented ==
    << << "#", " ", "Add one Justdial URL per line", "\n" >>,
       << "https://", "www.justdial.com", "/Mumbai/Restaurants", "\n" >> >>

\* the two f.write calls of read_urls when the file is missing
TemplateLines ==
    << << "#", " ", "Add one Justdial URL per line", "\n" >>,
       << "#", " ", "Example:", " ", "https://", "www.justdial.com", "/Mumbai/Restaurants", "\n" >> >>

UrlA == << "https://", "www.justdial.com", "/A" >>
UrlB == << "http://", "WWW.JUSTDIAL.COM", "/B" >>
LineA == UrlA \o << "\n" >>
LineB == << " " >> \o UrlB \o << " ", "\n" >>
LineComment == << "#", " ", "https://", "www.justdial.com", "/A", "\n" >>
LineBlank == << " ", "\n" >>
LineFtp == << "ftp://", "www.justdial.com", "/A", "\n" >>
LineOther == << "https://", "example.com", "/A", "\n" >>
LineUpper == << "HTTPS://", "www.justdial.com", "/A", "\n" >>
LineIndented == << " ", "#", "https://", "www.justdial.com", "/B", "\n" >>
LineLast == UrlB

\* the lines read_urls is explored on
LineAlphabet ==
    { LineA, LineB, LineComment, LineBlank, LineFtp, LineOther, LineUpper,
      LineIndented, LineLast }

Absent == [exists |-> FALSE, lines |-> << >>]
File(lines) == [exists |-> TRUE, lines |-> lines]

\* the contents of justdail_urls.txt a run starts from
InputFiles ==
    { Absent,
      File(<< LineComment, LineBlank, LineFtp >>),
      File(<< LineComment, LineA >>),
      File(<< LineA, LineOther, LineA >>),
      File(<< LineB, LineUpper, LineA >>),
      File(<< LineA, LineB, LineA >>) }

\* every file of at most MaxLines lines of LineAlphabet, and no file
ReadFiles ==
    { Absent } \cup
    { File(l) : l \in UNION { [1..k -> LineAlphabet] : k \in 0..MaxLines } }

\* those of one target page
SinglePageFiles == { f \in InputFiles : f.exists /\ Len(ReadLines(f.lines)) = 1 }

\* ------------------------------------------------- one listing element
\* What the lookups on one listing element give.  A lookup is "ok", "missing"
\* (NoSuchElementException) or "error" (any other exception).
OkElem ==
    [ anchor |-> "ok", rating |-> "ok", address |-> "ok", button |-> "ok",
      text |-> "9876543210", click |-> "ok", by_id |-> "ok", by_xpath |-> "ok",
      close |-> "ok" ]

Elems ==
    { OkElem,
      [OkElem EXCEPT !.anchor = "missing"],
      [OkElem EXCEPT !.rating = "missing", !.address = "missing"],
      [OkElem EXCEPT !.rating = "error"],
      [OkElem EXCEPT !.button = "missing"],
      [OkElem EXCEPT !.button = "error"],
      [OkElem EXCEPT !.text = ""],
      [OkElem EXCEPT !.text = "Show Number"],
      [OkElem EXCEPT !.text = "Show Number", !.click = "error",
                     !.by_id = "missing", !.by_xpath = "missing", !.close = "missing"],
      [OkElem EXCEPT !.text = "Show Number", !.by_id = "error"],
      [OkElem EXCEPT !.text = "Show Number", !.by_id = "missing", !.by_xpath = "error"],
      [OkElem EXCEPT !.text = "Show Number", !.by_id = "missing", !.close = "error"] }

\* the elements of a page of a multi-page run or of a page that re-renders:
\* an element that yields a record and one that yields none
BasicElems == { OkElem, [OkElem EXCEPT !.anchor = "missing"] }

NA == "N/A"                  \* the "unresolved" contact value
ContactText == "9876543210"  \* the text of the contact element
RatingText == "4.2"
AddressText == "Mumbai"
None == [none |-> TRUE]      \* Python's None

\* get_phone_number once the button is found: the value returned for element e
PhoneLookup(e) ==
    IF e.text = "Show Number"
    THEN \* a raising click is swallowed; the locators are tried in order
         IF e.by_id = "ok" THEN ContactText              \* selector == "id": no close
         ELSE IF e.by_id = "error" THEN NA               \* except Exception
         ELSE \* selector == "xpath": the popup is closed after the lookup
              IF e.by_xpath = "error" THEN NA
              ELSE IF e.close = "error" THEN NA
              ELSE IF e.by_xpath = "ok" THEN ContactText
              ELSE NA                                    \* phone = "N/A" was kept
    ELSE IF e.text = "" THEN NA ELSE e.text              \* button_text or "N/A"

\* a get_phone_number that returns None when the button is not found
get_phone_number_unset(e) ==
    IF e.button = "missing" THEN "None"
    ELSE IF e.button = "error" THEN NA
    ELSE PhoneLookup(e)

\* get_phone_number: the value returned for element e
get_phone_number(e) ==
    IF e.button = "missing" THEN NA                      \* except NoSuchElementException
    ELSE IF e.button = "error" THEN NA                   \* except Exception
    ELSE PhoneLookup(e)

ItemTitle(item) == << "title", item >>
ItemName(item) == << "name", item >>

\* get_product_details: the dict built for element e of listing item `item`
\* at clock reading ts, or None
get_product_details(e, item, ts) ==
    IF e.anchor # "ok" THEN None
    ELSE IF e.rating = "error" \/ e.address = "error" THEN None
    ELSE [ product_title |-> ItemTitle(item),
           name |-> ItemName(item),
           rating |-> IF e.rating = "ok" THEN RatingText ELSE "",
           address |-> IF e.address = "ok" THEN AddressText ELSE "",
           phone |-> get_phone_number(e),
           url |-> item,
           scraped_at |-> ts ]

\* details["product_index"] = len(products_data) + 1
WithIndex(details, n) ==
    [ k \in DOMAIN details \cup { "product_index" } |->
        IF k = "product_index" THEN n ELSE details[k] ]

\* ----------------------------------------------------------- output files
NaN == "NaN"                 \* what reindex puts in a column the data lacks

\* a column list that misnames the contact column
Columns_misnamed ==
    { "product_index", "product_title", "name", "rating", "address", "contact",
      "url", "scraped_at" }

Columns ==
    { "product_index", "product_title", "name", "rating", "address", "phone",
      "url", "scraped_at" }

\* pd.DataFrame(data).reindex(columns=columns): the rows that are written
Reindex(data) ==
    [ i \in DOMAIN data |->
        [ c \in Columns |-> IF c \in DOMAIN data[i] THEN data[i][c] ELSE NaN ] ]

\* f"justdial_results_partial_{counter}_{timestamp}.xlsx"
PartialName(counter, ts) == << "justdial_results_partial", counter, ts >>

\* f"justdial_results_{timestamp}.xlsx"
FinalName(ts) == << "justdial_results", ts >>

\* ------------------------------------------------------------- the run
\* __init__: self.chunk_size = max(1, int(chunk_size))
ChunkSizeOf(c) == IF c < 1 THEN 1 ELSE c

\* the chunk_size arguments a scraper is constructed with
ChunkArgs == { 0, 1, 2 }

\* a constructed scraper before run() is called, and the locals of run() and
\* scrape_products() before they are set
Constructed ==
    /\ partial_save_counter = 0
    /\ now = 0
    /\ written = << >>
    /\ rpc = "read"
    /\ urls = << >>
    /\ url_pos = 1
    /\ all_products = << >>
    /\ spc = "idle"
    /\ products_data = << >>
    /\ scroll_attempts = 0
    /\ last_count = 0
    /\ current_count = 0
    /\ item_pos = 0
    /\ h_iterations = 0
    /\ h_page = "clean"
    /\ h_exit = "none"
    /\ h_collected = << >>
    /\ h_visited = << >>
    /\ h_write_failed = FALSE
    /\ h_template_failed = FALSE
    /\ h_final_saves = 0
    /\ pixels = 0
    /\ current = 0
    /\ h_increments = << >>
    /\ h_extracted = { }
    /\ h_twice = FALSE
    /\ h_quits = 0
    /\ h_quit_failed = FALSE

\* A run is explored over every input file with pages whose listing only
\* grows, and over the single-page files with a page that may re-render (a
\* sample may then report fewer items than the one before, without end).
\* The pages of a single-page run whose listing only grows are made of every
\* element of Elems, the others of BasicElems.
Init ==
    /\ volatile \in BOOLEAN
    /\ input_file \in IF volatile THEN SinglePageFiles ELSE InputFiles
    /\ chunk_size \in { ChunkSizeOf(c) : c \in ChunkArgs }
    /\ Constructed

\* read_urls alone, on every file of ReadFiles
ReadInit ==
    /\ volatile = FALSE
    /\ input_file \in ReadFiles
    /\ chunk_size = ChunkSizeOf(1)
    /\ Constructed

\* the clock reading changes; modelled during the delay after a page
\* (random_delay(1.2, 2.8)), so all clock readings within a page agree
Tick ==
    /\ rpc = "loop" /\ url_pos > 1
    /\ now < MaxClock
    /\ now' = now + 1
    /\ UNCHANGED << input_file, setup_vars, scroll_vars, extract_vars, session_vars,
                    out_vars, run_vars, loop_vars, spc,
                    products_data, h_page, h_exit, h_collected, h_template_failed >>

\* to_excel returns (ok) or raises; a raise is explored in the runs over one
\* page, at most one to_excel call of a run raising
WriteOutcome(ok) == ok \/ (~h_write_failed /\ Len(urls) = 1)

\* run(): `if not urls: return`, else all_products = [] and the for loop starts
AfterRead(found) == IF found = << >> THEN "finally" ELSE "loop"

\* read_urls on an existing file, then run()'s test of the result
ReadUrlsPresent ==
    /\ rpc = "read"
    /\ input_file.exists
    /\ urls' = ReadLines(input_file.lines)
    /\ rpc' = AfterRead(urls')
    /\ UNCHANGED << input_file, setup_vars, scroll_vars, extract_vars, session_vars,
                    out_vars, now, url_pos, all_products,
                    h_visited, h_final_saves, loop_vars, spc, products_data, h_page,
                    h_exit, h_collected, h_template_failed >>

\* read_urls on a missing file: FileNotFoundError, the template is written
\* (or writing it raises, which is logged), no url is returned
ReadUrlsAbsent ==
    /\ rpc = "read"
    /\ ~input_file.exists
    /\ \E ok \in BOOLEAN :
          /\ input_file' = IF ok THEN File(TemplateLines) ELSE input_file
          /\ h_template_failed' = ~ok
    /\ urls' = << >>
    /\ rpc' = AfterRead(urls')
    /\ UNCHANGED << setup_vars, scroll_vars, extract_vars, session_vars,
                    out_vars, now, url_pos, all_products, h_visited,
                    h_final_saves, loop_vars, spc, products_data, h_page, h_exit,
                    h_collected >>

\* run(): the for loop takes the next url and calls scrape_products(url),
\* which sets its locals
NextUrl ==
    /\ rpc = "loop"
    /\ url_pos <= Len(urls)
    /\ rpc' = "scrape"
    /\ spc' = "nav"
    /\ products_data' = << >>
    /\ scroll_attempts' = 0
    /\ last_count' = 0
    /\ current_count' = 0
    /\ item_pos' = 0
    /\ h_iterations' = 0
    /\ h_page' = "clean"
    /\ h_exit' = "none"
    /\ h_visited' = Append(h_visited, urls[url_pos])
    /\ UNCHANGED << input_file, setup_vars, scroll_vars, extract_vars, session_vars,
                    out_vars, now, urls, url_pos,
                    all_products, h_final_saves, h_collected, h_template_failed >>

\* save_to_excel(all_products) after the loop: nothing for no data, else one
\* file under FinalName, unless to_excel raises (logged)
SaveToExcel ==
    /\ rpc = "loop"
    /\ url_pos > Len(urls)
    /\ h_final_saves' = h_final_saves + 1
    /\ IF all_products = << >>
       THEN UNCHANGED << written, h_write_failed >>
       ELSE \E ok \in BOOLEAN :
              /\ WriteOutcome(ok)
              /\ written' = IF ok
                            THEN Append(written, [ name |-> FinalName(now),
                                                   rows |-> Reindex(all_products) ])
                            ELSE written
              /\ h_write_failed' = (h_write_failed \/ ~ok)
    /\ rpc' = "finally"
    /\ UNCHANGED << input_file, setup_vars, scroll_vars, extract_vars, session_vars,
                    partial_save_counter, now, urls, url_pos,
                    all_products, h_visited, loop_vars, spc, products_data, h_page,
                    h_exit, h_collected, h_template_failed >>

\* a finally clause that does not call driver.quit()
Finally_skips ==
    /\ rpc = "finally"
    /\ rpc' = "done"
    /\ UNCHANGED << input_file, setup_vars, scroll_vars, extract_vars, session_vars,
                    out_vars, now, urls, url_pos,
                    all_products, h_visited, h_final_saves, loop_vars, spc,
                    products_data, h_page, h_exit, h_collected, h_template_failed >>

\* run(): the finally clause. self.driver is set in every constructed scraper
\* (setup_driver raises otherwise), so driver.quit() is called; it returns
\* (ok) or raises, which is logged
Finally ==
    /\ rpc = "finally"
    /\ rpc' = "done"
    /\ h_quits' = h_quits + 1
    /\ \E ok \in BOOLEAN : h_quit_failed' = ~ok
    /\ UNCHANGED << input_file, setup_vars, scroll_vars, extract_vars,
                    out_vars, now, urls, url_pos,
                    all_products, h_visited, h_final_saves, loop_vars, spc,
                    products_data, h_page, h_exit, h_collected, h_template_failed >>

\* ------------------------------------------------------ scrape_products
\* the url scrape_products was called with
CurrentUrl == urls[url_pos]

\* the listing item the element products[i] stands for
ItemAt(i) == << CurrentUrl, i >>

\* driver.get(url) returns
NavigateOk ==
    /\ rpc = "scrape" /\ spc = "nav"
    /\ spc' = "loop"
    /\ UNCHANGED << input_file, setup_vars, scroll_vars, extract_vars, session_vars,
                    out_vars, run_vars, loop_vars, now,
                    products_data, h_page, h_exit, h_collected, h_template_failed >>

\* a navigation error that leaves scrape_products and reaches the except of run()
NavigateFails_propagates ==
    /\ rpc = "scrape" /\ spc = "nav"
    /\ rpc' = "finally"
    /\ spc' = "idle"
    /\ h_exit' = "error"
    /\ h_page' = "failed"
    /\ UNCHANGED << input_file, setup_vars, scroll_vars, extract_vars, session_vars,
                    out_vars, urls, url_pos, all_products,
                    h_visited, h_final_saves, loop_vars, now, products_data,
                    h_collected, h_template_failed >>

\* driver.get(url) raises: the outer except logs, products_data is returned
NavigateFails ==
    /\ rpc = "scrape" /\ spc = "nav"
    /\ spc' = "ret"
    /\ h_exit' = "error"
    /\ h_page' = "failed"
    /\ UNCHANGED << input_file, setup_vars, scroll_vars, extract_vars, session_vars,
                    out_vars, run_vars, loop_vars, now,
                    products_data, h_collected, h_template_failed >>

\* a loop test that lets one iteration too many through
LoopCondition_inclusive == scroll_attempts <= max_scroll_attempts

\* while scroll_attempts < max_scroll_attempts
LoopCondition == scroll_attempts < max_scroll_attempts

\* one sample: products = find_elements(...), current_count = len(products),
\* and the for loop starts at products[last_count]
Sample ==
    /\ rpc = "scrape" /\ spc = "loop"
    /\ LoopCondition
    /\ \E n \in 0..MaxCount :
          /\ volatile \/ n >= last_count
          /\ current_count' = n
    /\ item_pos' = last_count
    /\ h_iterations' = h_iterations + 1
    /\ spc' = "items"
    /\ UNCHANGED << input_file, setup_vars, scroll_vars, extract_vars, session_vars,
                    out_vars, run_vars, now, products_data,
                    scroll_attempts, last_count, h_page, h_exit, h_collected,
                    h_template_failed >>

\* find_elements raises: the outer except logs, products_data is returned
SampleFails ==
    /\ rpc = "scrape" /\ spc = "loop"
    /\ LoopCondition
    /\ h_iterations' = h_iterations + 1
    /\ spc' = "ret"
    /\ h_exit' = "error"
    /\ h_page' = "failed"
    /\ UNCHANGED << input_file, setup_vars, scroll_vars, extract_vars, session_vars,
                    out_vars, run_vars, now, products_data,
                    scroll_attempts, last_count, current_count, item_pos,
                    h_collected, h_template_failed >>

\* the while condition is false: the hard cap
CapExit ==
    /\ rpc = "scrape" /\ spc = "loop"
    /\ ~LoopCondition
    /\ spc' = "ret"
    /\ h_exit' = "cap"
    /\ UNCHANGED << input_file, setup_vars, scroll_vars, extract_vars, session_vars,
                    out_vars, run_vars, loop_vars, now,
                    products_data, h_page, h_collected, h_template_failed >>

\* the bound on the records of the run: a page that re-renders yields one
\* record, and extraction fails on every element after it
Capacity == IF volatile THEN 1 ELSE MaxRecords

\* the elements the pages of the run are made of
Palette == IF volatile \/ Len(urls) > 1 THEN BasicElems ELSE Elems

\* a counter that is not advanced
NextCounter_stuck(c) == c

\* self._partial_save_counter += 1
NextCounter(c) == c + 1

\* len(products_data) % self.chunk_size == 0
ChunkBoundary(data) == Len(data) % chunk_size = 0

\* a _save_partial whose failed write leaves the for loop and the while loop
AfterSave_raises(saved) == IF saved THEN "items" ELSE "ret"

\* where scrape_products is after the _save_partial call: to_excel raising is
\* caught inside _save_partial (and again around the call), so the for loop
\* goes on whether the file was saved or not
AfterSave(saved) == "items"

\* one pass of the for loop body over element e with no login popup: the
\* element is extracted and, if it yields a record, the record is appended
\* and a partial file is written at a chunk boundary (saved: to_excel did
\* not raise)
ExtractItem(e, saved) ==
    /\ rpc = "scrape" /\ spc = "items"
    /\ item_pos < current_count
    /\ LET details == get_product_details(e, ItemAt(item_pos), now)
           record == WithIndex(details, Len(products_data) + 1)
           data == Append(products_data, record)
       IN IF details = None
          THEN /\ h_page' = IF h_page = "clean" THEN "failed" ELSE h_page
               /\ UNCHANGED << products_data, out_vars, h_collected, spc >>
          ELSE /\ Len(all_products) + Len(products_data) < Capacity
               /\ products_data' = data
               /\ h_collected' = Append(h_collected, record)
               /\ IF ChunkBoundary(data)
                  THEN /\ WriteOutcome(saved)
                       /\ partial_save_counter' = NextCounter(partial_save_counter)
                       /\ written' =
                            IF saved
                            THEN Append(written,
                                   [ name |-> PartialName(partial_save_counter', now),
                                     rows |-> Reindex(data) ])
                            ELSE written
                       /\ h_write_failed' = (h_write_failed \/ ~saved)
                       /\ spc' = AfterSave(saved)
                  ELSE UNCHANGED << out_vars, spc >>
               /\ UNCHANGED h_page
    /\ item_pos' = item_pos + 1
    /\ IF volatile
       THEN UNCHANGED extract_vars
       ELSE /\ h_extracted' = h_extracted \cup { item_pos }
            /\ h_twice' = (h_twice \/ item_pos \in h_extracted)
    /\ UNCHANGED << input_file, setup_vars, scroll_vars, session_vars,
                    run_vars, now, scroll_attempts,
                    last_count, current_count, h_iterations, h_exit,
                    h_template_failed >>

\* lines 321-336, reached when the for loop ends and after the except of the
\* try around it: `if last_count == current_count: break`, else
\* last_count = current_count; smooth_scroll(800); scroll_attempts += 1
Evaluate ==
    IF last_count = current_count
    THEN /\ spc' = "ret"
         /\ h_exit' = "stable"
         /\ UNCHANGED << last_count, scroll_attempts >>
    ELSE /\ spc' = "loop"
         /\ last_count' = current_count
         /\ scroll_attempts' = scroll_attempts + 1
         /\ UNCHANGED h_exit

\* the login popup is found: the raised Exception is caught by the except of
\* the try around the for loop, which logs; the rest of the batch is not
\* visited and the loop body goes on
LoginDetected ==
    /\ rpc = "scrape" /\ spc = "items"
    /\ item_pos < current_count
    /\ h_page' = "login"
    /\ Evaluate
    /\ UNCHANGED << input_file, setup_vars, scroll_vars, extract_vars, session_vars,
                    out_vars, run_vars, now, products_data,
                    current_count, item_pos, h_iterations, h_collected,
                    h_template_failed >>

\* the login lookup raises something other than NoSuchElementException:
\* caught by the same except
LoginCheckFails ==
    /\ rpc = "scrape" /\ spc = "items"
    /\ item_pos < current_count
    /\ h_page' = IF h_page = "clean" THEN "failed" ELSE h_page
    /\ Evaluate
    /\ UNCHANGED << input_file, setup_vars, scroll_vars, extract_vars, session_vars,
                    out_vars, run_vars, now, products_data,
                    current_count, item_pos, h_iterations, h_collected,
                    h_template_failed >>

\* products[last_count:] is exhausted
ItemsDone ==
    /\ rpc = "scrape" /\ spc = "items"
    /\ item_pos >= current_count
    /\ Evaluate
    /\ UNCHANGED << input_file, setup_vars, scroll_vars, extract_vars, session_vars,
                    out_vars, run_vars, now, products_data,
                    current_count, item_pos, h_iterations, h_page, h_collected,
                    h_template_failed >>

\* a run that keeps only the records of the page just scraped
Return_overwrite ==
    /\ rpc = "scrape" /\ spc = "ret"
    /\ all_products' = products_data
    /\ url_pos' = url_pos + 1
    /\ rpc' = "loop"
    /\ spc' = "idle"
    /\ products_data' = << >>
    /\ h_extracted' = { }
    /\ h_twice' = FALSE
    /\ UNCHANGED << input_file, setup_vars, scroll_vars, session_vars,
                    out_vars, now, urls, h_visited,
                    h_final_saves, loop_vars, h_page, h_exit, h_collected,
                    h_template_failed >>

\* return products_data; run(): all_products.extend(products), next url
Return ==
    /\ rpc = "scrape" /\ spc = "ret"
    /\ all_products' = all_products \o products_data
    /\ url_pos' = url_pos + 1
    /\ rpc' = "loop"
    /\ spc' = "idle"
    /\ products_data' = << >>
    /\ h_extracted' = { }
    /\ h_twice' = FALSE
    /\ UNCHANGED << input_file, setup_vars, scroll_vars, session_vars,
                    out_vars, now, urls, h_visited,
                    h_final_saves, loop_vars, h_page, h_exit, h_collected,
                    h_template_failed >>

Next ==
    \/ Tick
    \/ ReadUrlsPresent
    \/ ReadUrlsAbsent
    \/ NextUrl
    \/ NavigateOk
    \/ NavigateFails
    \/ Sample
    \/ SampleFails
    \/ CapExit
    \/ \E e \in Palette, saved \in BOOLEAN : ExtractItem(e, saved)
    \/ LoginDetected
    \/ LoginCheckFails
    \/ ItemsDone
    \/ Return
    \/ SaveToExcel
    \/ Finally

Spec == Init /\ [][Next]_vars

\* --------------------------------------------------------- smooth_scroll
\* In Spec the scroll at line 330 is part of the step Evaluate: smooth_scroll
\* returns nothing and changes nothing scrape_products reads.  ScrollSpec
\* explores it increment by increment, from the call at line 330 to the next
\* sample of the while loop.
Min(a, b) == IF a < b THEN a ELSE b

\* an increment of the full step whatever remains
ScrollAmount_fixed(cur, px) == step

\* scroll_amount = min(step, pixels - current)
ScrollAmount(cur, px) == Min(step, px - cur)

\* scrape_products is about to call smooth_scroll(pixels): one sample of the
\* first page gave one element, which yielded no record, and last_count was
\* just set; before that sample the page re-rendered through scroll_attempts
\* samples that yielded nothing (none, or all but one of those the cap allows)
ScrollInit ==
    /\ volatile = TRUE
    /\ input_file = File(<< LineA >>)
    /\ chunk_size = ChunkSizeOf(1)
    /\ partial_save_counter = 0
    /\ now = 0
    /\ written = << >>
    /\ rpc = "scrape"
    /\ urls = << UrlA >>
    /\ url_pos = 1
    /\ all_products = << >>
    /\ spc = "scroll"
    /\ products_data = << >>
    /\ scroll_attempts \in { 0, max_scroll_attempts - 1 }
    /\ last_count = 1
    /\ current_count = 1
    /\ item_pos = 1
    /\ h_iterations = scroll_attempts + 1
    /\ h_page = "failed"
    /\ h_exit = "none"
    /\ h_collected = << >>
    /\ h_visited = << UrlA >>
    /\ h_write_failed = FALSE
    /\ h_template_failed = FALSE
    /\ h_final_saves = 0
    /\ pixels \in (0..MaxPixels) \cup { ScrollBudget }
    /\ current = 0
    /\ h_increments = << >>
    /\ h_extracted = { }
    /\ h_twice = FALSE
    /\ h_quits = 0
    /\ h_quit_failed = FALSE

\* one pass of `while current < pixels`: execute_script returns (ok) and
\* current advances, or it raises WebDriverException and the loop is left
ScrollIncrement ==
    /\ rpc = "scrape" /\ spc = "scroll"
    /\ current < pixels
    /\ \E ok \in BOOLEAN :
          /\ h_increments' = Append(h_increments,
                                    [ amount |-> ScrollAmount(current, pixels),
                                      ok |-> ok ])
          /\ current' = IF ok THEN current + ScrollAmount(current, pixels) ELSE current
          /\ spc' = IF ok THEN "scroll" ELSE "scrolled"
    /\ UNCHANGED << input_file, setup_vars, extract_vars, session_vars, out_vars,
                    run_vars, loop_vars, now, products_data, pixels, h_page, h_exit,
                    h_collected, h_template_failed >>

\* `if ... pixels <= 0: return`, or the while condition is false
ScrollEnds ==
    /\ rpc = "scrape" /\ spc = "scroll"
    /\ ~(current < pixels)
    /\ spc' = "scrolled"
    /\ UNCHANGED << input_file, setup_vars, scroll_vars, extract_vars, session_vars,
                    out_vars, run_vars, loop_vars, now, products_data, h_page, h_exit,
                    h_collected, h_template_failed >>

\* smooth_scroll has returned: scroll_attempts += 1, the delay, the popup
\* check, and back to the while test
AfterScroll ==
    /\ rpc = "scrape" /\ spc = "scrolled"
    /\ scroll_attempts' = scroll_attempts + 1
    /\ spc' = "loop"
    /\ UNCHANGED << input_file, setup_vars, scroll_vars, extract_vars, session_vars,
                    out_vars, run_vars, now, products_data, last_count, current_count,
                    item_pos, h_iterations, h_page, h_exit, h_collected,
                    h_template_failed >>

ScrollNext ==
    \/ ScrollIncrement
    \/ ScrollEnds
    \/ AfterScroll
    \/ Sample
    \/ SampleFails
    \/ CapExit

ScrollSpec == ScrollInit /\ [][ScrollNext]_vars

\* ------------------------------------------------- run() to its end
\* an exception that no handler below run() catches (an interrupt, an error
\* inside a handler) leaves the try block of run(): the except clause logs
\* it if it is an Exception, and the finally clause runs in either case
RunRaises ==
    /\ rpc \in { "read", "loop", "scrape" }
    /\ rpc' = "finally"
    /\ UNCHANGED << input_file, setup_vars, scroll_vars, extract_vars, session_vars,
                    out_vars, now, urls, url_pos, all_products, h_visited,
                    h_final_saves, loop_vars, spc, products_data, h_page, h_exit,
                    h_collected, h_template_failed >>

\* the runs of a scraper with chunk_size 1 over at most two target pages
LiveInit ==
    /\ Init
    /\ chunk_size = 1
    /\ Len(ReadLines(input_file.lines)) <= 2

LiveNext ==
    \/ Next
    \/ RunRaises

\* run() is executed by one thread that never stops by itself: whenever a
\* step is possible, a step is taken
LiveSpec == LiveInit /\ [][LiveNext]_vars /\ WF_vars(LiveNext)

\* run() up to the for loop over the urls read
ReadNext ==
    \/ ReadUrlsPresent
    \/ ReadUrlsAbsent
    \/ Finally

ReadSpec == ReadInit /\ [][ReadNext]_vars

\* ----------------------------------------------------------------- claims
\* the records collected so far in the run
Collected == IF rpc = "scrape" THEN all_products \o products_data ELSE all_products

\* C1: whatever counts the samples report and whatever extraction fails,
\* scrape_products takes at most max_scroll_attempts samples of a page and
\* scrolls at most max_scroll_attempts times; once the cap is reached it only
\* leaves the loop, and it leaves through its return with the records
\* collected so far (every exit, the cap one included, ends in the return).
C1_HardCap ==
    /\ h_iterations <= max_scroll_attempts
    /\ scroll_attempts <= max_scroll_attempts
    /\ (rpc = "scrape" /\ scroll_attempts = max_scroll_attempts) => spc \in { "loop", "ret" }
    /\ (rpc = "scrape" /\ spc = "ret") =>
          /\ h_exit \in { "stable", "cap", "error" }
          /\ h_collected = all_products \o products_data

\* C1 witness: the cap exit after max_scroll_attempts samples, with a record
C1_Witness ==
    /\ rpc = "scrape" /\ spc = "ret" /\ h_exit = "cap"
    /\ h_iterations = max_scroll_attempts
    /\ products_data # << >>

\* the rows of every file written so far
SavedRows == UNION { Range(written[i].rows) : i \in DOMAIN written }

\* the number of records collected so far that no written file contains
Unsaved ==
    Cardinality({ i \in DOMAIN Collected : Reindex(<< Collected[i] >>)[1] \notin SavedRows })

\* C2: as long as no write has failed, at most chunk_size of the records
\* collected so far in the run are in no written file.
C2_LossBounded == ~h_write_failed => Unsaved <= chunk_size

\* the file is a partial (checkpoint) file
IsPartial(f) == f.name[1] = "justdial_results_partial"

\* C3: the files of a run are written under pairwise different names, the
\* final file included, and the counter in the names of the partial files
\* strictly increases from each partial file to the next, across pages.
C3_NamesDistinct ==
    \A i, j \in DOMAIN written :
        i < j =>
          /\ written[i].name # written[j].name
          /\ (IsPartial(written[i]) /\ IsPartial(written[j])) =>
                written[i].name[2] < written[j].name[2]

\* C3 witness: partial files of two different pages and the final file, all
\* written at the same clock reading
C3_Witness ==
    /\ Len(written) >= 3
    /\ \E i, j, k \in DOMAIN written :
          /\ i < j /\ j < k
          /\ IsPartial(written[i]) /\ IsPartial(written[j]) /\ ~IsPartial(written[k])
          /\ written[i].name[3] = written[j].name[3]
          /\ written[j].name[3] = written[k].name[2]
          /\ written[i].rows[1].url[1] # written[j].rows[1].url[1]

\* C4: no two records collected in the run are of the same listing item.
C4_NoDuplicateItems ==
    \A i, j \in DOMAIN Collected : i < j => Collected[i].url # Collected[j].url

\* C5: once a login barrier has been detected on a page, scrape_products
\* takes no further sample of that page, scrolls no further and extracts no
\* further element of it.
C5_LoginAborts ==
    [][ (h_page = "login" /\ rpc = "scrape" /\ rpc' = "scrape") =>
          /\ h_iterations' = h_iterations
          /\ scroll_attempts' = scroll_attempts
          /\ item_pos' = item_pos
          /\ products_data' = products_data ]_vars

\* the urls whose scrape_products call has been made
Called == SubSeq(urls, 1, IF rpc = "scrape" THEN url_pos ELSE url_pos - 1)

\* C6: run hands the urls to scrape_products one by one in list order, each
\* once, whatever happened on the pages before; save_to_excel is called once,
\* after the last page, and the run ends only after that call.
C6_EveryPageVisited ==
    /\ h_visited = Called
    /\ h_final_saves <= 1
    /\ h_final_saves = 1 => h_visited = urls
    /\ (rpc \in { "finally", "done" } /\ urls # << >>) =>
          /\ h_visited = urls
          /\ h_final_saves = 1

\* C6 witness: the second of three pages ended on an exception with a
\* record extracted, and control is back in the for loop of run with the
\* third url to take next
C6_Witness ==
    /\ rpc = "loop" /\ url_pos = 3 /\ Len(urls) = 3
    /\ h_exit = "error" /\ h_page = "failed"
    /\ all_products # << >> /\ all_products[Len(all_products)].url[1] = urls[2]
    /\ h_visited = SubSeq(urls, 1, 2)

\* the final files written
FinalFiles == { i \in DOMAIN written : ~IsPartial(written[i]) }

ContactFails(e) ==
    \/ e.button \in { "missing", "error" }
    \/ /\ e.text = "Show Number"
       /\ \/ e.by_id = "error"
          \/ e.by_id = "missing" /\ e.by_xpath \in { "missing", "error" }
          \/ e.by_id = "missing" /\ e.close = "error"

\* the other lookups of get_product_details succeed on element e
OtherLookupsSucceed(e) == e.anchor = "ok" /\ e.rating # "error" /\ e.address # "error"

\* C8: when obtaining the contact value of an element fails and nothing else
\* of its extraction raises, the pass over the element still appends a record,
\* with the "N/A" contact value, and the for loop goes on to the next element
\* of the page.
C8_ContactFailureKeepsRecord ==
    [][ \A e \in { x \in Elems : ContactFails(x) /\ OtherLookupsSucceed(x) },
           saved \in BOOLEAN :
          (spc = "items" /\ item_pos' # item_pos /\ ExtractItem(e, saved)) =>
              /\ Len(products_data') = Len(products_data) + 1
              /\ products_data'[Len(products_data')].phone = NA
              /\ products_data'[Len(products_data')].url = ItemAt(item_pos)
              /\ rpc' = "scrape" /\ spc' = "items"
              /\ item_pos' = item_pos + 1 ]_vars

\* C8 witness: a record with the "N/A" contact value of an element with
\* nothing else missing has just been appended and the next element of the
\* same batch is about to be extracted
C8_Witness ==
    /\ rpc = "scrape" /\ spc = "items"
    /\ item_pos < current_count
    /\ products_data # << >>
    /\ LET r == products_data[Len(products_data)]
       IN /\ r.phone = NA
          /\ r.rating = RatingText
          /\ r.url = ItemAt(item_pos - 1)

\* the contact values a record can carry: the text read from the page, or "N/A"
ContactValues == { ContactText, NA }

IsComment(line) == Strip(line) # << >> /\ Head(Strip(line)) = "#"

\* the line carries a url of the expected pattern
CarriesUrl(line) ==
    \E i \in DOMAIN Strip(line) : validate_url(SubSeq(Strip(line), i, Len(Strip(line))))

\* the run started with no input file
WasAbsent == rpc # "read" /\ (~input_file.exists \/ input_file.lines = TemplateLines)

\* C10: when the input file is missing, read_urls leaves a template file
\* (unless creating it raised) whose lines are all comments, exactly one of
\* them an example url, and returns no url; run then ends without a call of
\* scrape_products or save_to_excel and without any file written.
C10_MissingInput ==
    WasAbsent =>
        /\ input_file.exists \/ h_template_failed
        /\ input_file.exists =>
              /\ \A i \in DOMAIN input_file.lines : IsComment(input_file.lines[i])
              /\ Cardinality({ i \in DOMAIN input_file.lines :
                                  CarriesUrl(input_file.lines[i]) }) = 1
              /\ ReadLines(input_file.lines) = << >>
        /\ urls = << >>
        /\ rpc \in { "finally", "done" }
        /\ h_visited = << >>
        /\ h_final_saves = 0
        /\ written = << >>

\* C10 witness: the run has ended and the template file is in place
C10_Witness ==
    /\ rpc = "done"
    /\ input_file = File(TemplateLines)
    /\ ~h_template_failed

\* C11: when a checkpoint write fails, the records collected so far are
\* unchanged (the record just appended stays, no record is lost or altered,
\* no file appears), the run is not aborted, and extraction continues with
\* the next item of the same page.
C11_WriteFailureContinues ==
    [][ (~h_write_failed /\ h_write_failed' /\ rpc = "scrape") =>
          /\ Len(products_data') = Len(products_data) + 1
          /\ SubSeq(products_data', 1, Len(products_data)) = products_data
          /\ h_collected' = all_products \o products_data'
          /\ all_products' = all_products
          /\ written' = written
          /\ rpc' = "scrape" /\ spc' = "items"
          /\ url_pos' = url_pos
          /\ item_pos' = item_pos + 1
          /\ current_count' = current_count ]_vars

\* C11 witness: the first checkpoint write of a page failed, the next item
\* of the page was extracted and the checkpoint after it holds both records
C11_Witness ==
    /\ h_write_failed /\ rpc = "scrape"
    /\ Len(products_data) = 2
    /\ \E i \in DOMAIN written :
          /\ IsPartial(written[i])
          /\ written[i].name[2] = 2
          /\ written[i].rows = Reindex(products_data)
    /\ \A i \in DOMAIN written : written[i].name[2] # 1

\* the positions of the lines that, trimmed, are non-blank, do not begin with
\* the comment marker and match the host/scheme pattern
KeptLines(lines) ==
    { i \in DOMAIN lines :
        /\ Strip(lines[i]) # << >>
        /\ Head(Strip(lines[i])) # "#"
        /\ validate_url(Strip(lines[i])) }

\* C12: once read_urls has returned, urls holds exactly the trimmed lines of
\* the file that are non-blank, do not begin with the comment marker and
\* match the host/scheme pattern, in file order: the k-th such line is the
\* k-th url, whatever lines were skipped or rejected before it.
C12_ReadUrlsFilters ==
    rpc # "read" =>
        LET lines == input_file.lines
            kept == KeptLines(lines)
        IN /\ Len(urls) = Cardinality(kept)
           /\ \A i \in kept :
                 urls[Cardinality({ j \in kept : j <= i })] = Strip(lines[i])

\* C12 witness: a file has been read whose first line was rejected for its
\* pattern and whose two other lines, which differ, were both returned
C12_Witness ==
    /\ rpc = "loop"
    /\ Len(input_file.lines) = 3
    /\ KeptLines(input_file.lines) = { 2, 3 }
    /\ Strip(input_file.lines[1]) # << >>
    /\ Head(Strip(input_file.lines[1])) # "#"
    /\ Len(urls) = 2
    /\ urls[1] # urls[2]

\* C13: scrape_products leaves its loop through the stability exit only
\* after at least two samples of the page, the two most recent of which
\* report the same item count (last_count is the count of the sample before
\* the current one from the second sample on).
C13_StabilityOverTwoSamples ==
    (rpc = "scrape" /\ spc = "ret" /\ h_exit = "stable") =>
        /\ h_iterations >= 2
        /\ last_count = current_count

\* the fields of a record other than rating and address
OtherFields == { "product_title", "name", "phone", "url", "scraped_at" }

\* C14: a pass of the for loop over an element whose anchor is located
\* appends a record even when the rating or the address lookup fails, with
\* the empty value for the failed field only and the other fields as they
\* are when both lookups succeed; no record is appended only when the anchor
\* is not located.
C14_FieldFailureKeepsRecord ==
    [][ \A e \in Elems, saved \in BOOLEAN :
          (spc = "items" /\ item_pos' # item_pos /\ ExtractItem(e, saved)) =>
              IF e.anchor = "ok"
              THEN LET full == get_product_details(
                                 [e EXCEPT !.rating = "ok", !.address = "ok"],
                                 ItemAt(item_pos), now)
                       r == products_data'[Len(products_data')]
                   IN /\ Len(products_data') = Len(products_data) + 1
                      /\ r.rating = IF e.rating = "ok" THEN RatingText ELSE ""
                      /\ r.address = IF e.address = "ok" THEN AddressText ELSE ""
                      /\ \A k \in OtherFields : r[k] = full[k]
              ELSE products_data' = products_data ]_vars

RECURSIVE SumAmounts(_)
\* the total of the increments issued
SumAmounts(incs) ==
    IF incs = << >> THEN 0 ELSE Head(incs).amount + SumAmounts(Tail(incs))

C16_EveryItemExtractedOnce ==
    (~volatile /\ rpc = "scrape" /\ spc = "ret" /\ h_exit \in { "stable", "cap" }) =>
        /\ h_extracted = 0..(current_count - 1)
        /\ ~h_twice

\* C17: every execution of run() ends, and ends with driver.quit() called
\* exactly once; it is never called more than once.
C17_SessionClosedOnce ==
    /\ [](h_quits <= 1)
    /\ [](rpc = "done" => h_quits = 1)
    /\ <>(rpc = "done" /\ h_quits = 1)

\* C17 witness: a run over target pages has ended on an exception, without
\* the final save, and driver.quit() has been called
C17_Witness ==
    /\ rpc = "done"
    /\ h_quits = 1
    /\ urls # << >>
    /\ h_final_saves = 0

====
